---- MODULE Spec2Model ----
(***************************************************************************)
(* Model of the FileForge API (main.py): the check-protected,              *)
(* pdf-to-images and images-to-pdf request handlers, the PyPDF2 password   *)
(* removal helper and the deferred cleanup of the shared temp_files        *)
(* directory.                                                              *)
(*                                                                         *)
(* All handlers are coroutines of one event loop: the code between two     *)
(* awaits runs atomically, and one action of the model is one such piece.  *)
(* Strings are sequences of one-character strings so that lower(),         *)
(* upper(), endswith(), replace() and the f-string formatting are computed *)
(* the way Python computes them.                                           *)
(***************************************************************************)
EXTENDS Integers, Sequences, FiniteSets, TLC

(***************************************************************************)
(* Bounds of the model.                                                    *)
(***************************************************************************)
NumReqs == 2
MaxPaths == 3
BigDoc == 1000
MaxBadPages == 1

(***************************************************************************)
(* Python string operations.                                               *)
(***************************************************************************)
UpperLetters ==
  <<"A","B","C","D","E","F","G","H","I","J","K","L","M","N","O","P","Q","R","S","T","U","V","W","X","Y","Z">>

LowerLetters ==
  <<"a","b","c","d","e","f","g","h","i","j","k","l","m","n","o","p","q","r","s","t","u","v","w","x","y","z">>

Digits ==
  <<"0","1","2","3","4","5","6","7","8","9">>

IndexIn(c, alphabet) ==
  IF \E i \in 1..Len(alphabet) : alphabet[i] = c
    THEN CHOOSE i \in 1..Len(alphabet) : alphabet[i] = c
    ELSE 0

LowerChar(c) ==
  IF IndexIn(c, UpperLetters) > 0 THEN LowerLetters[IndexIn(c, UpperLetters)] ELSE c

UpperChar(c) ==
  IF IndexIn(c, LowerLetters) > 0 THEN UpperLetters[IndexIn(c, LowerLetters)] ELSE c

Lower(s) == [i \in 1..Len(s) |-> LowerChar(s[i])]

Upper(s) == [i \in 1..Len(s) |-> UpperChar(s[i])]

StartsWith(s, pre) ==
  /\ Len(s) >= Len(pre)
  /\ SubSeq(s, 1, Len(pre)) = pre

EndsWith(s, suf) ==
  /\ Len(s) >= Len(suf)
  /\ SubSeq(s, Len(s) - Len(suf) + 1, Len(s)) = suf

RECURSIVE Replace(_, _)
Replace(s, pat) ==
  IF s = <<>> THEN <<>>
  ELSE IF StartsWith(s, pat) THEN Replace(SubSeq(s, Len(pat) + 1, Len(s)), pat)
  ELSE <<Head(s)>> \o Replace(Tail(s), pat)

RECURSIVE DecimalDigits(_)
DecimalDigits(n) ==
  IF n < 10 THEN <<Digits[n + 1]>>
  ELSE DecimalDigits(n \div 10) \o <<Digits[(n % 10) + 1]>>

RECURSIVE ZeroPad(_, _)
ZeroPad(s, width) ==
  IF Len(s) >= width THEN s ELSE ZeroPad(<<"0">> \o s, width)

(* ASCII order of the characters that occur in archive entry names.        *)
CharOrder ==
  <<".", "0","1","2","3","4","5","6","7","8","9", "_">> \o LowerLetters

RECURSIVE StrLess(_, _)
StrLess(a, b) ==
  IF b = <<>> THEN FALSE
  ELSE IF a = <<>> THEN TRUE
  ELSE IF Head(a) = Head(b) THEN StrLess(Tail(a), Tail(b))
  ELSE IndexIn(Head(a), CharOrder) < IndexIn(Head(b), CharOrder)

(***************************************************************************)
(* String literals of the source.                                          *)
(***************************************************************************)
DotPdf == <<".","p","d","f">>
FmtPNG == <<"P","N","G">>
FmtJPEG == <<"J","P","E","G">>
FmtJPG == <<"J","P","G">>
SizeA4 == <<"A","4">>
SizeLETTER == <<"L","E","T","T","E","R">>
SizeLEGAL == <<"L","E","G","A","L">>
OrPortrait == <<"p","o","r","t","r","a","i","t">>
OrLandscape == <<"l","a","n","d","s","c","a","p","e">>
allowed_formats ==
  { <<".","p","n","g">>, <<".","j","p","g">>, <<".","j","p","e","g">>,
    <<".","g","i","f">>, <<".","b","m","p">>, <<".","t","i","f","f">>,
    <<".","w","e","b","p">> }
Pid == <<"4","2">>
NoPath == <<>>

(***************************************************************************)
(* The temp_files directory: a function from path to node.                 *)
(***************************************************************************)
FileNode(d, ino) == [kind |-> "file", data |-> d, ino |-> ino]
DirNode(e) == [kind |-> "dir", entries |-> e]
EmptyData == [t |-> "empty"]
NoData == [t |-> "none"]

Exists(f, p) == p \in DOMAIN f

Put(f, p, node) == [q \in (DOMAIN f) \cup {p} |-> IF q = p THEN node ELSE f[q]]

Remove(f, p) == [q \in (DOMAIN f) \ {p} |-> f[q]]

IsFile(f, p) == Exists(f, p) /\ f[p].kind = "file"

IsDir(f, p) == Exists(f, p) /\ f[p].kind = "dir"

(* open(p, 'wb') by request r: truncates p, or creates it as a new inode.  *)
OpenWb(f, p, r) ==
  Put(f, p, FileNode(EmptyData, IF IsFile(f, p) THEN f[p].ino ELSE r))

(* open(p, 'wb'), write, close in one synchronous piece of code.           *)
WriteFile(f, p, d, r) ==
  Put(f, p, FileNode(d, IF IsFile(f, p) THEN f[p].ino ELSE r))

ReadFile(f, p) == IF IsFile(f, p) THEN f[p].data ELSE NoData

(* temp_images_dir.mkdir(exist_ok=True)                                    *)
Mkdir(f, p) == IF Exists(f, p) THEN f ELSE Put(f, p, DirNode({}))

(***************************************************************************)
(* cleanup_files: one iteration of the loop on path p. raises says whether *)
(* rmtree / unlink raises on this path; the exception is caught and logged *)
(* and the path stays.                                                     *)
(***************************************************************************)
(* A variant that only unlinks files and never removes a directory.        *)
CleanupOneFilesOnly(f, p, raises) ==
  IF p # NoPath /\ Exists(f, p) /\ f[p].kind = "file"
    THEN IF raises THEN f ELSE Remove(f, p)
    ELSE f

CleanupOne(f, p, raises) ==
  IF p # NoPath /\ Exists(f, p)
    THEN IF raises THEN f ELSE Remove(f, p)
    ELSE f

CleanupLogs(f, p, raises) == p # NoPath /\ Exists(f, p) /\ raises

Range(s) == {s[i] : i \in 1..Len(s)}

(* The whole loop, run in one piece after the sleep: removals of different *)
(* paths do not affect each other, so the directory after the loop is the  *)
(* directory without the listed paths that one iteration removes.          *)
cleanup_files(f, file_paths, failing) ==
  LET removed == {p \in Range(file_paths) : ~Exists(CleanupOne(f, p, p \in failing), p)}
  IN [q \in (DOMAIN f) \ removed |-> f[q]]

(***************************************************************************)
(* Uploaded bytes. A document is parseable or not, plaintext or encrypted  *)
(* with a user and an owner secret, and has a sequence of pages.           *)
(***************************************************************************)
PwNone == <<>>
PwU == <<"u">>
PwO == <<"o">>
PwX == <<"x">>

Pdf(enc, user, owner, n) ==
  [t |-> "pdf", ok |-> TRUE, enc |-> enc, user |-> user, owner |-> owner,
   pages |-> [k \in 1..n |-> k]]

CorruptPdf == [t |-> "pdf", ok |-> FALSE, enc |-> FALSE, user |-> PwNone, owner |-> PwNone, pages |-> <<>>]
GarbledData == [t |-> "garbled"]

Img(ok) == [t |-> "img", ok |-> ok]

(* PyPDF2.PdfReader(f): raises unless the bytes are a parseable document.  *)
Parses(d) == d.t = "pdf" /\ d.ok

(* reader.decrypt(password): 0 rejected, 1 user password, 2 owner password *)
decrypt_result(d, password) ==
  IF password = d.user THEN 1
  ELSE IF password = d.owner THEN 2
  ELSE 0

(***************************************************************************)
(* Requests. Unused fields of a kind hold their defaults.                  *)
(***************************************************************************)
Reqs == 1..NumReqs

Request(kind, filename, doc, format, dpi, password, files, page_size, orientation, quality) ==
  [kind |-> kind, filename |-> filename, doc |-> doc, format |-> format, dpi |-> dpi,
   password |-> password, files |-> files, page_size |-> page_size,
   orientation |-> orientation, quality |-> quality]

CheckReq(filename, doc) ==
  Request("check", filename, doc, FmtPNG, 200, PwNone, <<>>, SizeA4, OrPortrait, 85)

P2IReq(filename, doc, format, dpi, password) ==
  Request("p2i", filename, doc, format, dpi, password, <<>>, SizeA4, OrPortrait, 85)

I2PReq(files, page_size, orientation, quality) ==
  Request("i2p", <<>>, NoData, FmtPNG, 200, PwNone, files, page_size, orientation, quality)

Upload(filename, img) == [filename |-> filename, img |-> img]

(***************************************************************************)
(* Staging paths (TEMP_DIR / f"...").                                      *)
(***************************************************************************)
base_name(q) == Replace(q.filename, DotPdf)

check_temp_file_path(q) == <<"c","h","e","c","k","_">> \o q.filename

input_file_path(q) == <<"i","n","p","u","t","_">> \o base_name(q) \o <<"_">> \o Pid \o DotPdf

output_zip_path(q) ==
  <<"i","m","a","g","e","s","_">> \o base_name(q) \o <<"_">> \o Pid \o <<".","z","i","p">>

temp_images_dir(q) == <<"i","m","a","g","e","s","_">> \o base_name(q) \o <<"_">> \o Pid

unlocked_path(q) ==
  <<"u","n","l","o","c","k","e","d","_">> \o base_name(q) \o <<"_">> \o Pid \o DotPdf

temp_path(q, i) ==
  <<"i","m","a","g","e","_">> \o DecimalDigits(i) \o <<"_">> \o Pid \o <<"_">> \o q.files[i + 1].filename

output_pdf_path(q) == <<"c","o","n","v","e","r","t","e","d","_">> \o Pid \o DotPdf

(* f"page_{i+1:03d}.{format.lower()}" for the 0-based index i              *)
image_filename(i, format) ==
  <<"p","a","g","e","_">> \o ZeroPad(DecimalDigits(i + 1), 3) \o <<".">> \o Lower(format)

(***************************************************************************)
(* Boundary validation, in the order of the handlers' checks. The result   *)
(* is the detail of the 400 response, or "ok".                             *)
(***************************************************************************)
MinDpi == 72
MaxDpi == 300
MaxImages == 50
MinQuality == 50
MaxQuality == 100

IsPdfName(filename) == EndsWith(Lower(filename), DotPdf)

IsImageName(filename) == \E ext \in allowed_formats : EndsWith(Lower(filename), ext)

check_validate(q) ==
  IF ~IsPdfName(q.filename) THEN "File must be a PDF" ELSE "ok"

(* A variant whose DPI check has no upper limit.                           *)
p2i_validate_no_max_dpi(q) ==
  IF ~IsPdfName(q.filename) THEN "File must be a PDF"
  ELSE IF Upper(q.format) \notin {FmtPNG, FmtJPEG, FmtJPG} THEN "Format must be PNG, JPEG, or JPG"
  ELSE IF ~(MinDpi <= q.dpi) THEN "DPI must be between 72 and 300"
  ELSE "ok"

p2i_validate(q) ==
  IF ~IsPdfName(q.filename) THEN "File must be a PDF"
  ELSE IF Upper(q.format) \notin {FmtPNG, FmtJPEG, FmtJPG} THEN "Format must be PNG, JPEG, or JPG"
  ELSE IF ~(MinDpi <= q.dpi /\ q.dpi <= MaxDpi) THEN "DPI must be between 72 and 300"
  ELSE "ok"

i2p_validate(q) ==
  IF q.files = <<>> THEN "At least one image file is required"
  ELSE IF Len(q.files) > MaxImages THEN "Maximum 50 images allowed"
  ELSE IF Upper(q.page_size) \notin {SizeA4, SizeLETTER, SizeLEGAL}
    THEN "Page size must be A4, LETTER, or LEGAL"
  ELSE IF Lower(q.orientation) \notin {OrPortrait, OrLandscape}
    THEN "Orientation must be portrait or landscape"
  ELSE IF ~(MinQuality <= q.quality /\ q.quality <= MaxQuality)
    THEN "Quality must be between 50 and 100"
  ELSE IF \E i \in 1..Len(q.files) : ~IsImageName(q.files[i].filename)
    THEN "File is not a supported image format"
  ELSE "ok"

validate(q) ==
  IF q.kind = "check" THEN check_validate(q)
  ELSE IF q.kind = "p2i" THEN p2i_validate(q)
  ELSE i2p_validate(q)

(* What the handler creates between the last check and its first await:    *)
(* only pdf-to-images creates something, its per-page image directory.     *)
after_validate(f, q) ==
  IF q.kind = "p2i" THEN Mkdir(f, temp_images_dir(q)) ELSE f

(***************************************************************************)
(* remove_password_pypdf2. fault = "write" is an I/O error while the       *)
(* output is written; bad is the set of pages whose copy raises. The       *)
(* result carries the new directory, the returned boolean and what         *)
(* happened inside ("copied", "decrypted", "rejected", "exception").       *)
(***************************************************************************)
DecryptResult(f, success, outcome) == [fs |-> f, success |-> success, outcome |-> outcome]

CopyPages(pages, bad) ==
  LET keep(k) == k \notin bad IN SelectSeq(pages, keep)

Unlocked(d, bad) ==
  [t |-> "pdf", ok |-> TRUE, enc |-> FALSE, user |-> PwNone, owner |-> PwNone,
   pages |-> CopyPages(d.pages, bad)]

remove_password_pypdf2(f, input_path, output_path, password, fault, bad, r) ==
  LET d == ReadFile(f, input_path) IN
  IF ~Parses(d) THEN DecryptResult(f, FALSE, "exception")
  ELSE IF ~d.enc THEN
    IF fault = "write"
      THEN DecryptResult(WriteFile(f, output_path, EmptyData, r), FALSE, "exception")
      ELSE DecryptResult(WriteFile(f, output_path, d, r), TRUE, "copied")
  ELSE IF decrypt_result(d, password) = 0 THEN DecryptResult(f, FALSE, "rejected")
  ELSE IF fault = "write"
    THEN DecryptResult(WriteFile(f, output_path, EmptyData, r), FALSE, "exception")
    ELSE DecryptResult(WriteFile(f, output_path, Unlocked(d, bad), r), TRUE, "decrypted")

(***************************************************************************)
(* The synchronous part of convert_pdf_to_images after the upload is       *)
(* staged: unlock, render, save the page images, zip, build the response.  *)
(***************************************************************************)
Outcome(f, status, detail, cause, artifact, produced, cleanup, skipped) ==
  [fs |-> f, status |-> status, detail |-> detail, cause |-> cause, artifact |-> artifact,
   produced |-> produced, cleanup |-> cleanup, skipped |-> skipped]

Failure(f, status, detail, cause) == Outcome(f, status, detail, cause, NoPath, NoData, <<>>, {})

(* The entries of the archive: one per saved image, in the order saved.    *)
ArchiveEntries(images, format) ==
  [k \in 1..Len(images) |-> [name |-> image_filename(k - 1, format), page |-> images[k]]]

(* image.save(temp_images_dir / image_filename) for the first upto pages:   *)
(* a file of that name is replaced, the other files of the directory stay. *)
SaveImages(f, dir, images, format, upto) ==
  LET entries == ArchiveEntries(images, format)
      new == {[name |-> entries[k].name, page |-> entries[k].page] : k \in 1..upto}
      names == {e.name : e \in new}
      old == IF f[dir].entries = {} THEN {} ELSE {e \in f[dir].entries : e.name \notin names}
  IN Put(f, dir, DirNode(old \cup new))

RenderSaveZip(f, q, pdf_path, fault, r) ==
  LET d == ReadFile(f, pdf_path)
      dir == temp_images_dir(q)
  IN
  IF ~Parses(d) \/ fault = "render"
    THEN Failure(f, 500, "Failed to convert PDF", "renderer")
  ELSE IF d.enc
    THEN Failure(f, 400, "PDF is password protected. Please provide the password.", "renderer_password")
  ELSE IF ~IsDir(f, dir)
    THEN Failure(f, 500, "Processing failed", "unexpected")
  ELSE IF fault = "save" /\ Len(d.pages) > 0
    THEN Failure(SaveImages(f, dir, d.pages, q.format, Len(d.pages) - 1),
                 500, "Processing failed", "unexpected")
  ELSE
    LET zip == [t |-> "zip", entries |-> ArchiveEntries(d.pages, q.format)] IN
    Outcome(WriteFile(SaveImages(f, dir, d.pages, q.format, Len(d.pages)),
                      output_zip_path(q), zip, r),
            200, "ok", "ok", output_zip_path(q), zip,
            <<input_file_path(q), output_zip_path(q), temp_images_dir(q)>>, {})

pdf_to_images(f, q, fault, bad, r) ==
  IF q.password # PwNone
    THEN LET u == remove_password_pypdf2(f, input_file_path(q), unlocked_path(q),
                                         q.password, fault, bad, r)
         IN IF ~u.success
              THEN Failure(u.fs, 400, "Invalid password provided", u.outcome)
              ELSE RenderSaveZip(u.fs, q, unlocked_path(q), fault, r)
    ELSE RenderSaveZip(f, q, input_file_path(q), fault, r)

(***************************************************************************)
(* The synchronous part of convert_images_to_pdf after the uploads are     *)
(* staged: one page per image that is opened, scaled and drawn without an  *)
(* exception; an image whose processing raises is logged and skipped.      *)
(***************************************************************************)
Processable(f, p) == IsFile(f, p) /\ f[p].data.t = "img" /\ f[p].data.ok

(* A variant in which the first image that fails ends the loop.            *)
ComposePagesUntilFailure(f, q) ==
  LET n == Len(q.files)
      good(i) == \A j \in 0..i : Processable(f, temp_path(q, j))
      kept == SelectSeq([k \in 1..n |-> k - 1], good)
  IN [k \in 1..Len(kept) |-> [src |-> kept[k], img |-> f[temp_path(q, kept[k])].data]]

ComposePages(f, q) ==
  LET n == Len(q.files)
      order == [k \in 1..n |-> k - 1]
      good(i) == Processable(f, temp_path(q, i))
      kept == SelectSeq(order, good)
  IN [k \in 1..Len(kept) |-> [src |-> kept[k], img |-> f[temp_path(q, kept[k])].data]]

ComposeSkipped(f, q) ==
  {i \in 0..(Len(q.files) - 1) : ~Processable(f, temp_path(q, i))}

images_to_pdf(f, q, fault, r) ==
  IF fault = "save"
    THEN Failure(f, 500, "Processing failed", "unexpected")
    ELSE LET out == [t |-> "pdf", ok |-> TRUE, enc |-> FALSE, user |-> PwNone, owner |-> PwNone,
                     pages |-> ComposePages(f, q)]
         IN Outcome(WriteFile(f, output_pdf_path(q), out, r),
                    200, "ok", "ok", output_pdf_path(q), out,
                    <<output_pdf_path(q)>> \o [i \in 1..Len(q.files) |-> temp_path(q, i - 1)],
                    ComposeSkipped(f, q))

(***************************************************************************)
(* The synchronous part of check_if_password_protected after the upload    *)
(* is staged: analyse, answer, and unlink the staged file in the finally.  *)
(***************************************************************************)
check_protected(f, q) ==
  LET p == check_temp_file_path(q)
      d == ReadFile(f, p)
      g == IF Exists(f, p) THEN Remove(f, p) ELSE f
  IN IF ~Parses(d)
       THEN Failure(g, 500, "Error processing file", "analysis")
       ELSE Outcome(g, 200, IF d.enc THEN "PDF is password protected"
                                      ELSE "PDF is not password protected", "ok",
                    NoPath, NoData, <<>>, {})

(***************************************************************************)
(* Inputs of the model.                                                    *)
(***************************************************************************)
NameA == <<"a",".","p","d","f">>
NameAUpper == <<"a",".","P","D","F">>
NameB == <<"b",".","p","d","f">>
NameTxt == <<"a",".","t","x","t">>
ImgX == <<"x",".","p","n","g">>
ImgY == <<"y",".","J","P","G">>
ImgZ == <<"z",".","t","x","t">>

PlainDoc(n) == Pdf(FALSE, PwNone, PwNone, n)
EncDoc == Pdf(TRUE, PwU, PwO, 2)

Good == Upload(ImgX, Img(TRUE))
Bad == Upload(ImgY, Img(FALSE))

(* Requests that run side by side.                                         *)
SmallCatalogue ==
  {CheckReq(n, d) : n \in {NameA, NameB}, d \in {PlainDoc(1), EncDoc}}
  \cup {CheckReq(NameTxt, PlainDoc(1))}
  \cup {P2IReq(n, d, FmtPNG, 200, pw) :
          n \in {NameA, NameB}, d \in {PlainDoc(2), EncDoc}, pw \in {PwNone, PwU, PwX}}
  \cup {I2PReq(fl, SizeA4, OrPortrait, 85) : fl \in {<<Good>>, <<Good, Bad>>}}

(* Requests that probe the boundary, one at a time.                        *)
WideFormats == {FmtPNG, <<"p","n","g">>, FmtJPEG, FmtJPG, <<"G","I","F">>}
WideDpis == {MinDpi - 1, MinDpi, 200, MaxDpi, MaxDpi + 1}
WideDocs == {PlainDoc(0), PlainDoc(3), EncDoc, CorruptPdf}
WideSizes == {SizeA4, <<"l","e","t","t","e","r">>, SizeLEGAL, <<"A","3">>}
WideOrientations == {OrPortrait, <<"L","a","n","d","s","c","a","p","e">>, <<"u","p">>}
WideQualities == {MinQuality - 1, MinQuality, 85, MaxQuality, MaxQuality + 1}
WideFiles ==
  {<<>>, <<Upload(ImgZ, Img(TRUE))>>, <<Good, Upload(ImgZ, Img(TRUE))>>,
   [i \in 1..MaxImages |-> Good], [i \in 1..(MaxImages + 1) |-> Good]}
  \cup {<<a>> : a \in {Good, Bad}}
  \cup {<<a, b, c>> : a \in {Good, Bad}, b \in {Good, Bad}, c \in {Good, Bad}}

WideCatalogue ==
  {CheckReq(n, d) : n \in {NameA, NameAUpper, NameTxt}, d \in {PlainDoc(3), EncDoc, CorruptPdf}}
  \cup {P2IReq(n, d, fm, dpi, pw) :
          n \in {NameA, NameAUpper, NameTxt}, d \in WideDocs, fm \in WideFormats,
          dpi \in WideDpis, pw \in {PwNone, PwO, PwX}}
  \cup {P2IReq(NameA, PlainDoc(n), fm, 200, PwNone) :
          n \in {BigDoc - 1, BigDoc}, fm \in {FmtPNG, FmtJPG}}
  \cup {I2PReq(fl, sz, o, ql) :
          fl \in WideFiles, sz \in WideSizes, o \in WideOrientations, ql \in WideQualities}

P2IFaults == {"none", "write", "render", "save"}
I2PFaults == {"none", "save"}

Min(a, b) == IF a < b THEN a ELSE b

(* The sets of pages whose copy may raise while a document is unlocked.    *)
BadPageSets(q) == SUBSET (1..Min(Len(q.doc.pages), MaxBadPages))

(***************************************************************************)
(* State.                                                                  *)
(***************************************************************************)
VARIABLES
  req,        \* the request of each slot
  pc,         \* where each request's coroutine stands
  fs,         \* the temp_files directory
  idx,        \* number of uploads the request has staged so far
  fd,         \* inode of the file the request holds open for writing
  resp,       \* the response of each request
  ghost,      \* what each request did: paths created, cause of failure, warnings logged
  cu_paths,   \* cleanup_files run on its own: the argument list,
  cu_i,       \* the position of the loop,
  cu_failed,  \* the positions whose removal raised (a warning is logged),
  cu_pc,      \* the position of the coroutine,
  cu_fs0      \* and the directory when it was called

vars == <<req, pc, fs, idx, fd, resp, ghost, cu_paths, cu_i, cu_failed, cu_pc, cu_fs0>>

cu_vars == <<cu_paths, cu_i, cu_failed, cu_pc, cu_fs0>>

NoResp == [status |-> 0, detail |-> "", artifact |-> NoPath, body |-> NoData]

NoGhost ==
  [created |-> {}, cause |-> "", skipped |-> {}, produced |-> NoData, cleanup |-> <<>>,
   failed |-> {}, fault |-> "none", bad |-> {}]

EmptyFs == <<>>

CuIdle ==
  /\ cu_paths = <<>>
  /\ cu_i = 0
  /\ cu_failed = {}
  /\ cu_pc = "idle"
  /\ cu_fs0 = EmptyFs

InitRest ==
  /\ fs = EmptyFs
  /\ idx = [r \in Reqs |-> 0]
  /\ fd = [r \in Reqs |-> 0]
  /\ resp = [r \in Reqs |-> NoResp]
  /\ ghost = [r \in Reqs |-> NoGhost]
  /\ CuIdle

(* Concurrent requests.                                                    *)
Init ==
  /\ req \in [Reqs -> SmallCatalogue]
  /\ pc = [r \in Reqs |-> "start"]
  /\ InitRest

(* One request at a time, over the wide inputs.                            *)
InitOne ==
  /\ \E q \in WideCatalogue : req = [r \in Reqs |-> q]
  /\ pc = [r \in Reqs |-> IF r = 1 THEN "start" ELSE "idle"]
  /\ InitRest

(***************************************************************************)
(* Actions: one per piece of handler code between two awaits.              *)
(***************************************************************************)
Finish(r, o, next, fault, bad) ==
  /\ fs' = o.fs
  /\ pc' = [pc EXCEPT ![r] = next]
  /\ resp' = [resp EXCEPT ![r] = [status |-> o.status, detail |-> o.detail,
                                  artifact |-> o.artifact, body |-> NoData]]
  /\ ghost' = [ghost EXCEPT ![r].cause = o.cause, ![r].skipped = o.skipped,
                            ![r].produced = o.produced, ![r].cleanup = o.cleanup,
                            ![r].fault = fault, ![r].bad = bad,
                            ![r].created = @ \cup
                               {p \in {unlocked_path(req[r]), output_zip_path(req[r]),
                                       output_pdf_path(req[r])} :
                                  /\ Exists(o.fs, p)
                                  /\ (~Exists(fs, p) \/ fs[p] # o.fs[p])}]

(* The checks at the top of a handler, up to its first await.              *)
Validate(r) ==
  /\ pc[r] = "start"
  /\ LET q == req[r]
         v == validate(q)
     IN IF v # "ok"
          THEN /\ pc' = [pc EXCEPT ![r] = "done"]
               /\ resp' = [resp EXCEPT ![r] = [NoResp EXCEPT !.status = 400, !.detail = v]]
               /\ ghost' = [ghost EXCEPT ![r].cause = "validation"]
               /\ fs' = fs
          ELSE /\ pc' = [pc EXCEPT ![r] = "open"]
               /\ fs' = after_validate(fs, q)
               /\ ghost' = [ghost EXCEPT ![r].created = IF q.kind = "p2i"
                                                          THEN {temp_images_dir(q)} ELSE {}]
               /\ resp' = resp
  /\ UNCHANGED <<req, idx, fd, cu_vars>>

stage_path(q, i) ==
  IF q.kind = "check" THEN check_temp_file_path(q)
  ELSE IF q.kind = "p2i" THEN input_file_path(q)
  ELSE temp_path(q, i)

stage_data(q, i) == IF q.kind = "i2p" THEN q.files[i + 1].img ELSE q.doc

(* async with aiofiles.open(path, 'wb')                                    *)
StageOpen(r) ==
  /\ pc[r] = "open"
  /\ LET p == stage_path(req[r], idx[r]) IN
       /\ fs' = OpenWb(fs, p, r)
       /\ fd' = [fd EXCEPT ![r] = fs'[p].ino]
       /\ ghost' = [ghost EXCEPT ![r].created = @ \cup {p}]
  /\ pc' = [pc EXCEPT ![r] = "write"]
  /\ UNCHANGED <<req, idx, resp, cu_vars>>

(* The bytes at p after request r wrote d through its descriptor: the      *)
(* write lands in the inode r opened; after another writer of the same     *)
(* inode, a shorter d leaves that writer's tail behind it.                 *)
Written(f, p, d, ino) ==
  IF IsFile(f, p) /\ f[p].ino = ino
    THEN IF f[p].data = EmptyData
           THEN {Put(f, p, FileNode(d, ino))}
           ELSE {Put(f, p, FileNode(d, ino)), Put(f, p, FileNode(GarbledData, ino))}
    ELSE {f}

(* content = await file.read(); await f.write(content); close              *)
StageWrite(r) ==
  /\ pc[r] = "write"
  /\ LET q == req[r]
         p == stage_path(q, idx[r])
     IN /\ fs' \in Written(fs, p, stage_data(q, idx[r]), fd[r])
        /\ idx' = [idx EXCEPT ![r] = @ + 1]
        /\ pc' = [pc EXCEPT ![r] = IF q.kind = "i2p" /\ idx[r] + 1 < Len(q.files)
                                     THEN "open" ELSE "process"]
  /\ UNCHANGED <<req, fd, resp, ghost, cu_vars>>

check_if_password_protected(r) ==
  /\ pc[r] = "process"
  /\ req[r].kind = "check"
  /\ Finish(r, check_protected(fs, req[r]), "done", "none", {})
  /\ UNCHANGED <<req, idx, fd, cu_vars>>

convert_pdf_to_images(r) ==
  /\ pc[r] = "process"
  /\ req[r].kind = "p2i"
  /\ \E fault \in P2IFaults, bad \in BadPageSets(req[r]) :
       LET o == pdf_to_images(fs, req[r], fault, bad, r)
       IN Finish(r, o, IF o.status = 200 THEN "respond" ELSE "done", fault, bad)
  /\ UNCHANGED <<req, idx, fd, cu_vars>>

convert_images_to_pdf(r) ==
  /\ pc[r] = "process"
  /\ req[r].kind = "i2p"
  /\ \E fault \in I2PFaults :
       LET o == images_to_pdf(fs, req[r], fault, r)
       IN Finish(r, o, IF o.status = 200 THEN "respond" ELSE "done", fault, {})
  /\ UNCHANGED <<req, idx, fd, cu_vars>>

(* The response boundary streams the file at the artifact's path; when the *)
(* file is gone it raises and the background task is never run.            *)
FileResponse(r) ==
  /\ pc[r] = "respond"
  /\ IF IsFile(fs, resp[r].artifact)
       THEN /\ resp' = [resp EXCEPT ![r].body = fs[resp[r].artifact].data]
            /\ pc' = [pc EXCEPT ![r] = "sent"]
            /\ ghost' = ghost
       ELSE /\ resp' = resp
            /\ pc' = [pc EXCEPT ![r] = "done"]
            /\ ghost' = [ghost EXCEPT ![r].cause = "stream aborted"]
  /\ UNCHANGED <<req, fs, idx, fd, cu_vars>>

(* The removals that may raise in one run of the background task: none,    *)
(* or the removal of one of the listed paths.                              *)
FailingSets(paths) == {{}} \cup {{p} : p \in Range(paths)}

(* background=cleanup_files(...): run by the response boundary after the   *)
(* body is sent; sleeps, then removes the listed paths in one piece.       *)
Background(r) ==
  /\ pc[r] = "sent"
  /\ \E failing \in FailingSets(ghost[r].cleanup) :
       /\ fs' = cleanup_files(fs, ghost[r].cleanup, failing)
       /\ ghost' = [ghost EXCEPT ![r].failed = {p \in failing : Exists(fs, p)}]
  /\ pc' = [pc EXCEPT ![r] = "done"]
  /\ UNCHANGED <<req, idx, fd, resp, cu_vars>>

Next ==
  \E r \in Reqs :
    \/ Validate(r)
    \/ StageOpen(r)
    \/ StageWrite(r)
    \/ check_if_password_protected(r)
    \/ convert_pdf_to_images(r)
    \/ convert_images_to_pdf(r)
    \/ FileResponse(r)
    \/ Background(r)

Spec == Init /\ [][Next]_vars

SpecOne == InitOne /\ [][Next]_vars

(***************************************************************************)
(* cleanup_files on its own, one iteration of its loop at a time, called   *)
(* with any list of paths on any directory.                                *)
(***************************************************************************)
CuPathA == <<"f","1">>
CuPathB == <<"f","2">>
CuPathC == <<"d","1">>
CuUniverse == {CuPathA, CuPathB, CuPathC}

CuNode(p, kind) ==
  IF kind = "dir" THEN DirNode({[name |-> image_filename(0, FmtPNG), page |-> 1]})
  ELSE FileNode(PlainDoc(1), 1)

CuDirectories ==
  UNION {[S -> {"file", "dir"}] : S \in SUBSET CuUniverse}

CuLists == UNION {[1..n -> CuUniverse \cup {NoPath}] : n \in 0..MaxPaths}

InitCleanup ==
  /\ req = [r \in Reqs |-> CheckReq(NameA, PlainDoc(1))]
  /\ pc = [r \in Reqs |-> "idle"]
  /\ \E kinds \in CuDirectories : fs = [p \in DOMAIN kinds |-> CuNode(p, kinds[p])]
  /\ idx = [r \in Reqs |-> 0]
  /\ fd = [r \in Reqs |-> 0]
  /\ resp = [r \in Reqs |-> NoResp]
  /\ ghost = [r \in Reqs |-> NoGhost]
  /\ cu_paths \in CuLists
  /\ cu_i = 1
  /\ cu_failed = {}
  /\ cu_pc = "sleep"
  /\ cu_fs0 = fs

(* await asyncio.sleep(3)                                                  *)
CleanupSleep ==
  /\ cu_pc = "sleep"
  /\ cu_pc' = IF cu_paths = <<>> THEN "done" ELSE "loop"
  /\ UNCHANGED <<req, pc, fs, idx, fd, resp, ghost, cu_paths, cu_i, cu_failed, cu_fs0>>

(* One iteration of "for file_path in file_paths".                         *)
CleanupStep ==
  /\ cu_pc = "loop"
  /\ \E raises \in BOOLEAN :
       /\ fs' = CleanupOne(fs, cu_paths[cu_i], raises)
       /\ cu_failed' = IF CleanupLogs(fs, cu_paths[cu_i], raises)
                         THEN cu_failed \cup {cu_i} ELSE cu_failed
  /\ cu_i' = cu_i + 1
  /\ cu_pc' = IF cu_i = Len(cu_paths) THEN "done" ELSE "loop"
  /\ UNCHANGED <<req, pc, idx, fd, resp, ghost, cu_paths, cu_fs0>>

NextCleanup == CleanupSleep \/ CleanupStep

SpecCleanup == InitCleanup /\ [][NextCleanup]_vars

(***************************************************************************)
(* Properties.                                                             *)
(***************************************************************************)
Finished(r) == pc[r] \in {"done", "idle"}

Processed(r) == pc[r] \in {"respond", "sent", "done"} /\ ghost[r].cause \notin {"", "validation"}

(* C1: once every request has completed and no removal raised, every path  *)
(* a request staged or created under temp_files is absent, on success and  *)
(* on failure paths.                                                       *)
C1_StagedPathsReleased ==
  ((\A r \in Reqs : Finished(r)) /\ (\A r \in Reqs : ghost[r].failed = {}))
    => \A r \in Reqs : \A p \in ghost[r].created : ~Exists(fs, p)

(* The staging paths the handler derives for a request.                    *)
AllocatedPaths(q) ==
  IF q.kind = "check" THEN {check_temp_file_path(q)}
  ELSE IF q.kind = "p2i"
    THEN {input_file_path(q), output_zip_path(q), temp_images_dir(q)}
         \cup (IF q.password # PwNone THEN {unlocked_path(q)} ELSE {})
  ELSE {output_pdf_path(q)} \cup {temp_path(q, i) : i \in 0..(Len(q.files) - 1)}

InFlight(r) == pc[r] \in {"open", "write", "process", "respond", "sent"}

(* C2: two pdf-to-images or images-to-pdf requests in flight at the same   *)
(* time never hold the same staging path.                                  *)
C2_PathsDisjoint ==
  \A r1 \in Reqs : \A r2 \in Reqs \ {r1} :
    (InFlight(r1) /\ InFlight(r2) /\ {req[r1].kind, req[r2].kind} \subseteq {"p2i", "i2p"})
      => AllocatedPaths(req[r1]) \cap AllocatedPaths(req[r2]) = {}

(* C3: while a response waits to be streamed, the artifact handed to the   *)
(* response boundary is in temp_files with the bytes the request produced. *)
C3_ArtifactKeptUntilStreamed ==
  \A r \in Reqs :
    pc[r] = "respond"
      => /\ IsFile(fs, resp[r].artifact)
         /\ fs[resp[r].artifact].data = ghost[r].produced

(* The boundary preconditions of the three operations.                     *)
HasSuffix(name, suffixes) == \E x \in suffixes : EndsWith(Lower(name), x)

Violates(q) ==
  IF q.kind = "check" THEN ~HasSuffix(q.filename, {DotPdf})
  ELSE IF q.kind = "p2i"
    THEN \/ ~HasSuffix(q.filename, {DotPdf})
         \/ Upper(q.format) \notin {FmtPNG, FmtJPEG, FmtJPG}
         \/ q.dpi \notin 72..300
  ELSE \/ Len(q.files) \notin 1..50
       \/ Upper(q.page_size) \notin {SizeA4, SizeLETTER, SizeLEGAL}
       \/ Lower(q.orientation) \notin {OrPortrait, OrLandscape}
       \/ q.quality \notin 50..100
       \/ \E i \in 1..Len(q.files) : ~HasSuffix(q.files[i].filename, allowed_formats)

(* C4: a request that violates a boundary precondition is rejected with a  *)
(* client error by the step that examines it, and that step leaves         *)
(* temp_files unchanged; nothing was staged for it before.                 *)
C4_RejectedBeforeStaging ==
  [][\A r \in Reqs :
       (pc[r] = "start" /\ pc'[r] # "start" /\ Violates(req[r]))
         => /\ pc'[r] = "done"
            /\ resp'[r].status = 400
            /\ fs' = fs
            /\ ghost'[r].created = {}]_vars

C4_Witness ==
  \E r \in Reqs :
    /\ req[r].kind = "i2p"
    /\ Len(req[r].files) = 51
    /\ pc[r] = "done"
    /\ resp[r].status = 400
    /\ fs = EmptyFs

(* The name the claim gives archive entry k: "page_", k in three digits    *)
(* (more when k has more), ".", the format in lower case.                  *)
EntryName(k, format) ==
  <<"p","a","g","e","_">>
    \o (IF k < 10 THEN <<"0","0">> ELSE IF k < 100 THEN <<"0">> ELSE <<>>)
    \o DecimalDigits(k) \o <<".">> \o Lower(format)

(* C5: a successful rasterize of a document of N pages, none lost while    *)
(* unlocking, yields an archive of N entries, entry k named after page k,  *)
(* whose names are in increasing lexicographic order.                      *)
C5_ArchiveInPageOrder ==
  \A r \in Reqs :
    (req[r].kind = "p2i" /\ Processed(r) /\ resp[r].status = 200
       /\ ghost[r].bad = {} /\ ghost[r].produced.t = "zip")
      => LET e == ghost[r].produced.entries
             n == Len(req[r].doc.pages)
         IN /\ Len(e) = n
            /\ \A k \in 1..n : e[k].name = EntryName(k, req[r].format) /\ e[k].page = k
            /\ \A k \in 1..(n - 1) : StrLess(e[k].name, e[k + 1].name)

(* C6: in a step of pdf-to-images that runs decrypt without an I/O fault:  *)
(* a rejected password gives InvalidPassword and no file at the unlocked   *)
(* path; an accepted password gives an unencrypted output there; an        *)
(* unencrypted source gives a byte-identical copy there.                   *)
C6_DecryptOutcomes ==
  [][\A r \in Reqs :
       (pc[r] = "process" /\ pc'[r] # "process" /\ req[r].kind = "p2i"
          /\ req[r].password # PwNone /\ ghost'[r].fault = "none")
         => LET q == req[r]
                d == ReadFile(fs, input_file_path(q))
                out == unlocked_path(q)
            IN /\ (Parses(d) /\ d.enc /\ decrypt_result(d, q.password) = 0)
                    => /\ resp'[r].status = 400
                       /\ resp'[r].detail = "Invalid password provided"
                       /\ ~Exists(fs', out)
               /\ (Parses(d) /\ d.enc /\ decrypt_result(d, q.password) # 0)
                    => /\ resp'[r].detail # "Invalid password provided"
                       /\ IsFile(fs', out)
                       /\ Parses(fs'[out].data) /\ ~fs'[out].data.enc
               /\ (Parses(d) /\ ~d.enc)
                    => /\ resp'[r].detail # "Invalid password provided"
                       /\ IsFile(fs', out)
                       /\ fs'[out].data = d]_vars

(* C7: in pdf-to-images and check-protected a client error comes only from *)
(* validation, a password the crypto primitive rejected, or a renderer     *)
(* diagnostic about a password; every internal failure is a server error   *)
(* and InvalidPassword is reported only for a rejected password.           *)
C7_ErrorClassesApart ==
  \A r \in Reqs :
    (req[r].kind \in {"p2i", "check"} /\ pc[r] = "done" /\ resp[r].status # 0)
      => /\ resp[r].status = 400
              => ghost[r].cause \in {"validation", "rejected", "renderer_password"}
         /\ ghost[r].cause \in {"exception", "renderer", "unexpected", "analysis"}
              => resp[r].status = 500
         /\ resp[r].detail = "Invalid password provided" => ghost[r].cause = "rejected"

(* C8: when cleanup_files has returned, every listed path is absent unless *)
(* its removal raised; a listed path that was absent at the call raised    *)
(* nothing; the loop went through the whole list; paths that are not       *)
(* listed are untouched.                                                   *)
C8_BestEffortRelease ==
  cu_pc = "done"
    => /\ cu_i = Len(cu_paths) + 1
       /\ \A i \in 1..Len(cu_paths) :
            /\ Exists(fs, cu_paths[i]) => i \in cu_failed
            /\ ~Exists(cu_fs0, cu_paths[i]) => i \notin cu_failed
       /\ \A p \in DOMAIN cu_fs0 :
            p \notin Range(cu_paths) => (Exists(fs, p) /\ fs[p] = cu_fs0[p])

C8_Witness ==
  /\ cu_pc = "done"
  /\ Len(cu_paths) = 3
  /\ cu_paths[1] = cu_paths[3]
  /\ IsDir(cu_fs0, cu_paths[1])
  /\ ~Exists(cu_fs0, cu_paths[2])
  /\ cu_failed = {1}
  /\ ~Exists(fs, cu_paths[1])

(* C9: when compose ran without an I/O fault it reports success, and the   *)
(* pages of its output are, in input order, exactly the uploads whose      *)
(* processing does not fail, each page holding that upload's image.        *)
C9_PagesOfProcessedImages ==
  \A r \in Reqs :
    (req[r].kind = "i2p" /\ Processed(r) /\ ghost[r].fault = "none")
      => LET files == req[r].files
             good == {i \in 0..(Len(files) - 1) : files[i + 1].img.ok}
             pages == ghost[r].produced.pages
         IN /\ resp[r].status = 200
            /\ Len(pages) = Cardinality(good)
            /\ \A k \in 1..Len(pages) :
                 /\ pages[k].src \in good
                 /\ pages[k].img = files[pages[k].src + 1].img
            /\ \A k \in 1..(Len(pages) - 1) : pages[k].src < pages[k + 1].src
            /\ ghost[r].skipped = (0..(Len(files) - 1)) \ good

C9_Witness ==
  \E r \in Reqs :
    /\ req[r].kind = "i2p"
    /\ pc[r] = "done"
    /\ resp[r].status = 200
    /\ Len(req[r].files) = 3
    /\ ghost[r].skipped = {1}
    /\ Len(ghost[r].produced.pages) = 2

(* C10: a completed check-protected request on a parseable document        *)
(* answers with the encryption status of its own upload.                   *)
C10_OwnAnswer ==
  \A r \in Reqs :
    (req[r].kind = "check" /\ pc[r] = "done" /\ ~Violates(req[r]) /\ Parses(req[r].doc))
      => /\ resp[r].status = 200
         /\ (resp[r].detail = "PDF is password protected") <=> req[r].doc.enc

====
